---- MODULE Spec2Model ----
(***************************************************************************)
(* Model of createEnum (src/src/createEnum.js).                            *)
(*                                                                         *)
(*   export const createEnum = (obj, options = {}) =>                      *)
(*     Object.entries(obj).reduce(                                         *)
(*       (acc, [key, value], index) => ({                                  *)
(*         ...acc,                                                         *)
(*         [key]: { ...options.defaultFields, name: key, index, ...value },*)
(*       }),                                                               *)
(*       {}                                                                *)
(*     );                                                                  *)
(*                                                                         *)
(* JavaScript objects live on a heap: an address is an index into `heap`,  *)
(* an object is the sequence of its own enumerable data properties in      *)
(* creation order, and a property value is a scalar or a reference to an   *)
(* address.  Enumeration (Object.entries, spread) follows the language's   *)
(* own-property order: array-index keys ascending, then the other string   *)
(* keys in creation order.                                                 *)
(***************************************************************************)
EXTENDS Integers, Sequences, FiniteSets, TLC

VARIABLES heap, caller, pc, obj, options, entries, index, acc, steps, results, written

vars == <<heap, caller, pc, obj, options, entries, index, acc, steps, results, written>>

----------------------------------------------------------------------------
(* Bounds of the model.                                                    *)

\* largest number of keys of an input mapping in the key-order family
MaxKeys == 2
\* largest number of fields of an entry spec / of defaultFields in the merge family
MaxFields == 1
\* number of createEnum calls the caller makes
MaxCalls == 2
\* number of objects the caller writes to after a call
MaxWrites == 1
\* array-index keys "0" .. ToString(MaxArrayIndex) are recognised
MaxArrayIndex == 2

----------------------------------------------------------------------------
(* JavaScript values.                                                      *)

Undef  == [t |-> "undefined", s |-> "", n |-> 0]
Str(s) == [t |-> "string", s |-> s, n |-> 0]
Num(n) == [t |-> "number", s |-> "", n |-> n]
Ref(a) == [t |-> "object", s |-> "", n |-> a]

IsRef(v) == v.t = "object"

Prop(k, v) == [k |-> k, v |-> v]

----------------------------------------------------------------------------
(* Objects: own properties in creation order.                              *)

HasOwn(o, k) == \E j \in 1..Len(o) : o[j].k = k

Get(o, k) ==
  IF HasOwn(o, k) THEN o[CHOOSE j \in 1..Len(o) : o[j].k = k].v ELSE Undef

\* defining a property: an existing key keeps its place, a new key goes last
Put(o, k, v) ==
  IF HasOwn(o, k)
  THEN [j \in 1..Len(o) |-> IF o[j].k = k THEN Prop(k, v) ELSE o[j]]
  ELSE Append(o, Prop(k, v))

\* a key is an array index iff it is the canonical decimal string of an integer
IsArrayIndex(k) == \E n \in 0..MaxArrayIndex : ToString(n) = k

ArrayIndexOf(k) == CHOOSE n \in 0..MaxArrayIndex : ToString(n) = k

RECURSIVE AscendingIndexKeys(_)
AscendingIndexKeys(S) ==
  IF S = {} THEN <<>>
  ELSE LET m == CHOOSE k \in S : \A q \in S : ArrayIndexOf(k) <= ArrayIndexOf(q)
       IN  <<m>> \o AscendingIndexKeys(S \ {m})

CreationOrderKeys(o) == [j \in 1..Len(o) |-> o[j].k]

\* variant: every key in creation order, array-index keys not moved forward
OwnKeysInsertionOrder(o) == CreationOrderKeys(o)

\* [[OwnPropertyKeys]]: array indices ascending, then strings in creation order
OwnKeys(o) ==
  AscendingIndexKeys({o[j].k : j \in {q \in 1..Len(o) : IsArrayIndex(o[q].k)}})
    \o SelectSeq(CreationOrderKeys(o), LAMBDA k : ~IsArrayIndex(k))

\* Object.entries(o): the [key, value] pairs in own-property order
ObjectEntries(o) ==
  LET ks == OwnKeys(o) IN [j \in 1..Len(ks) |-> <<ks[j], Get(o, ks[j])>>]

RECURSIVE CopyProps(_, _, _)
CopyProps(target, es, j) ==
  IF j > Len(es) THEN target
  ELSE CopyProps(Put(target, es[j][1], es[j][2]), es, j + 1)

\* {...target, ...src} for an object src: copies own properties, values as they are
Spread(target, src) == CopyProps(target, ObjectEntries(src), 1)

\* ...v inside an object literal: undefined contributes nothing
SpreadValue(h, target, v) == IF IsRef(v) THEN Spread(target, h[v.n]) ELSE target

----------------------------------------------------------------------------
(* The heap.                                                               *)

NewAddr(h) == Len(h) + 1

Store(h, a, o) == IF a > Len(h) THEN Append(h, o) ELSE [h EXCEPT ![a] = o]

----------------------------------------------------------------------------
(* The callback of the reduce.                                             *)

\* variant: index counted from 1
EntryObjectOneBased(h, defaultFields, key, i, value) ==
  SpreadValue(h,
              Put(Put(SpreadValue(h, <<>>, defaultFields), "name", Str(key)),
                  "index", Num(i + 1)),
              value)

\* variant: { name: key, index, ...value }, defaultFields forgotten
EntryObjectNoDefaults(h, defaultFields, key, i, value) ==
  SpreadValue(h, Put(Put(<<>>, "name", Str(key)), "index", Num(i)), value)

\* variant: { ...options.defaultFields, ...value, name: key, index }
EntryObjectNameLast(h, defaultFields, key, i, value) ==
  Put(Put(SpreadValue(h, SpreadValue(h, <<>>, defaultFields), value),
          "name", Str(key)),
      "index", Num(i))

\* variant: { name: key, index, ...options.defaultFields, ...value }
EntryObjectNameFirst(h, defaultFields, key, i, value) ==
  SpreadValue(h,
              SpreadValue(h, Put(Put(<<>>, "name", Str(key)), "index", Num(i)),
                          defaultFields),
              value)

\* variant: { name: key, index, ...value, ...options.defaultFields }
EntryObjectDefaultsLast(h, defaultFields, key, i, value) ==
  SpreadValue(h,
              SpreadValue(h, Put(Put(<<>>, "name", Str(key)), "index", Num(i)),
                          value),
              defaultFields)

\* line 5-10: { ...options.defaultFields, name: key, index, ...value }
EntryObject(h, defaultFields, key, i, value) ==
  SpreadValue(h,
              Put(Put(SpreadValue(h, <<>>, defaultFields), "name", Str(key)),
                  "index", Num(i)),
              value)

\* variant: { [key]: entry, ...acc }
AccObjectKeyFirst(accObj, key, entryRef) == Spread(Put(<<>>, key, entryRef), accObj)

\* line 3-11: { ...acc, [key]: entry }
AccObject(accObj, key, entryRef) == Put(Spread(<<>>, accObj), key, entryRef)

\* variant: Object.assign(value, ...) builds the entry in the spec object
EntryTargetAssign(h, value) == value.n

\* the object literal of line 5 is a new object
EntryTarget(h, value) == NewAddr(h)

\* variant: acc[key] = entry; return acc
AccTargetInPlace(h, a) == a

\* the object literal of line 3 is a new object
AccTarget(h, a) == NewAddr(h)

----------------------------------------------------------------------------
(* Inputs the caller builds before calling createEnum.                     *)

KeyNames == {"A", "01", "1", "0"}

FieldOrder == <<"name", "index", "f">>

\* values an entry spec / defaultFields may hold; address 1 is a nested object
EntryVals   == {Str("x"), Ref(1)}
DefaultVals == {Str("d"), Ref(1)}

KeySeqs(n) ==
  UNION {{ks \in [1..m -> KeyNames] : \A p, q \in 1..m : p # q => ks[p] # ks[q]}
         : m \in 0..n}

\* the property bags with at most n of the fields, each value from vals
Shapes(vals, n) ==
  UNION {{LET fs == SelectSeq(FieldOrder, LAMBDA f : f \in S)
          IN  [j \in 1..Len(fs) |-> Prop(fs[j], g[fs[j]])] : g \in [S -> vals]}
         : S \in {T \in SUBSET {FieldOrder[j] : j \in 1..Len(FieldOrder)}
                    : Cardinality(T) <= n}}

PlainSpecs == {<<>>, <<Prop("f", Ref(1))>>}

\* key-order family: up to MaxKeys keys of every form, plain specs
OrderFamily ==
  {[keys |-> ks, specs |-> sp, defaults |-> {<<>>, <<Prop("f", Str("d"))>>}]
     : <<ks, sp>> \in UNION {{<<ks, sp>> : sp \in [1..Len(ks) -> PlainSpecs]}
                             : ks \in KeySeqs(MaxKeys)}}

\* merge family: two keys, the first with every spec of up to MaxFields
\* fields, under every defaultFields of up to MaxFields fields
MergeFamily ==
  {[keys |-> <<"B", "A">>, specs |-> <<s1, s2>>,
    defaults |-> Shapes(DefaultVals, MaxFields)]
     : <<s1, s2>> \in Shapes(EntryVals, MaxFields) \X PlainSpecs}

\* how the caller passes options: not at all, as {}, or as {defaultFields}
OptionModes == {"absent", "empty", "defaultFields"}

\* the heap the caller has built: the nested object, then defaultFields and
\* the options object (when passed), the entry specs and the entries mapping
CallerBase(mode, dflt) ==
  CASE mode = "absent"        -> << <<>> >>
    [] mode = "empty"         -> << <<>>, <<>> >>
    [] mode = "defaultFields" -> << <<>>, dflt, <<Prop("defaultFields", Ref(2))>> >>

CallerHeap(keys, specs, mode, dflt) ==
  LET base == CallerBase(mode, dflt)
      n    == Len(keys)
  IN  base \o [j \in 1..n |-> specs[j]]
           \o << [j \in 1..n |-> Prop(keys[j], Ref(Len(base) + j))] >>

\* the references the caller holds into that heap (0: no such object)
CallerRefs(keys, mode) ==
  LET b == CASE mode = "absent" -> 1 [] mode = "empty" -> 2 [] mode = "defaultFields" -> 3
  IN  [nested        |-> 1,
       defaultFields |-> IF mode = "defaultFields" THEN 2 ELSE 0,
       options       |-> IF mode = "absent" THEN 0 ELSE b,
       specs         |-> [j \in 1..Len(keys) |-> b + j],
       obj           |-> b + Len(keys) + 1]

Init ==
  \E fam \in OrderFamily \cup MergeFamily :
    \E mode \in OptionModes :
      \E dflt \in IF mode = "defaultFields" THEN fam.defaults ELSE {<<>>} :
        /\ heap = CallerHeap(fam.keys, fam.specs, mode, dflt)
        /\ caller = CallerRefs(fam.keys, mode)
        /\ pc = "idle"
        /\ obj = Undef
        /\ options = Undef
        /\ entries = <<>>
        /\ index = 0
        /\ acc = 0
        /\ steps = <<>>
        /\ results = <<>>
        /\ written = {}

----------------------------------------------------------------------------
(* createEnum.                                                             *)

\* line 1-2, 12: bind the parameters (options defaults to a new {}), take
\* Object.entries(obj), evaluate the initial accumulator {}
Call ==
  /\ pc = "idle"
  /\ Len(results) < MaxCalls
  /\ written = {}
  /\ LET passed == caller.options # 0
         h1     == IF passed THEN heap ELSE Store(heap, NewAddr(heap), <<>>)
     IN  /\ obj' = Ref(caller.obj)
         /\ options' = IF passed THEN Ref(caller.options) ELSE Ref(NewAddr(heap))
         /\ entries' = ObjectEntries(h1[caller.obj])
         /\ acc' = NewAddr(h1)
         /\ heap' = Store(h1, NewAddr(h1), <<>>)
  /\ index' = 0
  /\ steps' = <<>>
  /\ pc' = "reduce"
  /\ UNCHANGED <<caller, results, written>>

\* line 3-11: one call of the callback, for entries[index]
Callback ==
  /\ pc = "reduce"
  /\ index < Len(entries)
  /\ LET key       == entries[index + 1][1]
         value     == entries[index + 1][2]
         accAddr   == AccTarget(heap, acc)
         h1        == Store(heap, accAddr, heap[acc])
         entryAddr == EntryTarget(h1, value)
         entryObj  == EntryObject(h1, Get(h1[options.n], "defaultFields"),
                                  key, index, value)
         h2        == Store(h1, entryAddr, entryObj)
         accObj    == AccObject(heap[acc], key, Ref(entryAddr))
     IN  /\ heap' = Store(h2, accAddr, accObj)
         /\ acc' = accAddr
         /\ steps' = Append(steps, [key |-> key, acc |-> accAddr, accObj |-> accObj,
                                    entry |-> entryAddr, entryObj |-> entryObj,
                                    from |-> acc])
  /\ index' = index + 1
  /\ UNCHANGED <<caller, pc, obj, options, entries, results, written>>

\* line 2: reduce returns the last accumulator
Return ==
  /\ pc = "reduce"
  /\ index = Len(entries)
  /\ results' = Append(results, acc)
  /\ pc' = "idle"
  /\ UNCHANGED <<heap, caller, obj, options, entries, index, acc, steps, written>>

----------------------------------------------------------------------------
(* What the caller may do with a table it holds.                           *)

EntryAddrs(h, table) == {h[table][j].v.n : j \in 1..Len(h[table])}

\* table[key].f = "w"
WriteEntryField ==
  /\ pc = "idle"
  /\ Cardinality(written) < MaxWrites
  /\ \E r \in 1..Len(results) :
       \E a \in EntryAddrs(heap, results[r]) :
         /\ heap' = [heap EXCEPT ![a] = Put(@, "f", Str("w"))]
         /\ written' = written \cup {a}
  /\ UNCHANGED <<caller, pc, obj, options, entries, index, acc, steps, results>>

\* nested.z = "w", on the nested object the specs and defaultFields refer to
MutateNested ==
  /\ pc = "idle"
  /\ Cardinality(written) < MaxWrites
  /\ Len(results) > 0
  /\ heap' = [heap EXCEPT ![caller.nested] = Put(@, "z", Str("w"))]
  /\ written' = written \cup {caller.nested}
  /\ UNCHANGED <<caller, pc, obj, options, entries, index, acc, steps, results>>

Next ==
  \/ Call
  \/ Callback
  \/ Return
  \/ WriteEntryField
  \/ MutateNested

Spec == Init /\ [][Next]_vars

----------------------------------------------------------------------------
(* Vocabulary of the properties.                                           *)

InputObj == heap[caller.obj]

\* the keys of the input mapping in the order the caller defined them
InsertedKeys == CreationOrderKeys(InputObj)

InputSpec(k) ==
  LET v == Get(InputObj, k) IN IF IsRef(v) THEN heap[v.n] ELSE <<>>

Defaults == IF caller.defaultFields = 0 THEN <<>> ELSE heap[caller.defaultFields]

Returned == 1..Len(results)

TableOf(r) == heap[results[r]]

EntryAddr(r, k) == Get(TableOf(r), k).n

\* the entry a returned table holds for key k ({} when it holds none)
EntryOf(r, k) ==
  LET v == Get(TableOf(r), k) IN IF IsRef(v) THEN heap[v.n] ELSE <<>>

\* the caller has not written to the entry since it was returned
AsReturned(r, k) == EntryAddr(r, k) \notin written

KeySet(o) == {o[j].k : j \in 1..Len(o)}

InputKeys == KeySet(InputObj)

NoOverride ==
  \A k \in InputKeys : ~HasOwn(InputSpec(k), "name") /\ ~HasOwn(InputSpec(k), "index")

NoArrayIndexKey == \A k \in InputKeys : ~IsArrayIndex(k)

\* number of keys the caller defined before k
InsertedBefore(k) ==
  LET ks == InsertedKeys IN (CHOOSE q \in 1..Len(ks) : ks[q] = k) - 1

\* every object the caller passed in, directly or through a field
InputAddrs ==
  {caller.obj, caller.nested}
    \cup {caller.specs[j] : j \in 1..Len(caller.specs)}
    \cup (IF caller.options = 0 THEN {} ELSE {caller.options})
    \cup (IF caller.defaultFields = 0 THEN {} ELSE {caller.defaultFields})

----------------------------------------------------------------------------
(* C1 *)

\* C1 as stated: with no spec defining `name` or `index`, the entry of the
\* i-th key in definition order has name = that key and index = i.
C1_DefinitionOrderIndex ==
  NoOverride =>
    \A r \in Returned : \A i \in 1..Len(InsertedKeys) :
      /\ Get(EntryOf(r, InsertedKeys[i]), "name") = Str(InsertedKeys[i])
      /\ Get(EntryOf(r, InsertedKeys[i]), "index") = Num(i - 1)

\* C1 amended: with no spec defining `name` or `index`, every entry has
\* name = its key and the indices are exactly 0..n-1 with no gap and no
\* repeat; when no key is an array index, the i-th key in definition order
\* has index = i.
C1_NameAndIndex ==
  NoOverride =>
    \A r \in Returned :
      /\ \A k \in InputKeys : Get(EntryOf(r, k), "name") = Str(k)
      /\ {Get(EntryOf(r, k), "index") : k \in InputKeys}
           = {Num(i) : i \in 0..(Len(InsertedKeys) - 1)}
      /\ NoArrayIndexKey =>
           \A i \in 1..Len(InsertedKeys) :
             Get(EntryOf(r, InsertedKeys[i]), "index") = Num(i - 1)

C1_Witness ==
  /\ Len(results) > 0
  /\ NoOverride
  /\ NoArrayIndexKey
  /\ Len(InsertedKeys) >= 2
  /\ Get(EntryOf(1, InsertedKeys[2]), "index") = Num(1)

----------------------------------------------------------------------------
(* C2 *)

\* C2: a returned table has the keys of the input mapping, in the input's
\* iteration order; an empty input gives an empty table.
C2_SameKeysSameOrder ==
  \A r \in Returned :
    /\ KeySet(TableOf(r)) = InputKeys
    /\ OwnKeys(TableOf(r)) = OwnKeys(InputObj)
    /\ (InputObj = <<>> => TableOf(r) = <<>>)

C2_Witness ==
  /\ Len(results) > 0
  /\ Len(InsertedKeys) >= 2
  /\ ~IsArrayIndex(InsertedKeys[1])
  /\ ~IsArrayIndex(InsertedKeys[2])
  /\ OwnKeys(TableOf(1)) = InsertedKeys

----------------------------------------------------------------------------
(* C3 *)

\* C3 as stated: a field of defaultFields that the entry's spec lacks has
\* the default's value in the output entry.
C3_DefaultApplies ==
  \A r \in Returned : \A k \in InputKeys :
    AsReturned(r, k) =>
      \A f \in KeySet(Defaults) :
        ~HasOwn(InputSpec(k), f) => Get(EntryOf(r, k), f) = Get(Defaults, f)

\* C3 amended: a field of defaultFields other than `name` and `index` that
\* the entry's spec lacks has the default's value in the output entry.
C3_DefaultAppliesExceptNameIndex ==
  \A r \in Returned : \A k \in InputKeys :
    AsReturned(r, k) =>
      \A f \in KeySet(Defaults) \ {"name", "index"} :
        ~HasOwn(InputSpec(k), f) => Get(EntryOf(r, k), f) = Get(Defaults, f)

C3_Witness ==
  /\ Len(results) > 0
  /\ \E k \in InputKeys :
       /\ HasOwn(Defaults, "f")
       /\ ~HasOwn(InputSpec(k), "f")
       /\ Get(EntryOf(1, k), "f") = Get(Defaults, "f")

----------------------------------------------------------------------------
(* C4 *)

\* C4: every field of the entry's own spec has the spec's value in the
\* output entry, whatever defaultFields holds, `name` and `index` included.
C4_OwnFieldsWin ==
  \A r \in Returned : \A k \in InputKeys :
    AsReturned(r, k) =>
      \A f \in KeySet(InputSpec(k)) : Get(EntryOf(r, k), f) = Get(InputSpec(k), f)

C4_Witness ==
  /\ Len(results) > 0
  /\ \E k1, k2 \in InputKeys :
       /\ HasOwn(InputSpec(k1), "name")
       /\ Get(EntryOf(1, k1), "name") # Str(k1)
       /\ HasOwn(InputSpec(k2), "f")
       /\ HasOwn(Defaults, "f")
       /\ Get(Defaults, "f") # Get(InputSpec(k2), "f")
       /\ Get(EntryOf(1, k2), "f") = Get(InputSpec(k2), "f")

----------------------------------------------------------------------------
(* C5 *)

\* a step of createEnum: the call is in progress before or after it
CreateEnumStep == pc # "idle" \/ pc' # "idle"

\* C5: no step of any createEnum call changes an object the caller passed
\* in: the entries mapping, the entry specs, the options object,
\* defaultFields and what they refer to keep their keys and values.
C5_ArgumentsNotMutated ==
  [][CreateEnumStep => \A a \in InputAddrs : heap'[a] = heap[a]]_vars

C5_Witness ==
  /\ Len(results) = 2
  /\ caller.defaultFields # 0
  /\ Len(InsertedKeys) >= 2
  /\ \A k \in InputKeys : InputSpec(k) # <<>>

----------------------------------------------------------------------------
(* C6 *)

\* position of key k in the iteration order of the input mapping, from 0
PositionOf(k) ==
  LET ks == OwnKeys(InputObj) IN (CHOOSE j \in 1..Len(ks) : ks[j] = k) - 1

\* C6: the entry of a key at position i with an empty spec has the fields of
\* defaultFields plus name and index, name = key and index = i replacing a
\* default of that name, the other fields as in defaultFields; with no
\* defaultFields it is exactly {name, index}.
C6_EmptySpecEntry ==
  \A r \in Returned : \A k \in InputKeys :
    (AsReturned(r, k) /\ InputSpec(k) = <<>>) =>
      /\ KeySet(EntryOf(r, k)) = KeySet(Defaults) \cup {"name", "index"}
      /\ Get(EntryOf(r, k), "name") = Str(k)
      /\ Get(EntryOf(r, k), "index") = Num(PositionOf(k))
      /\ \A f \in KeySet(Defaults) \ {"name", "index"} :
           Get(EntryOf(r, k), f) = Get(Defaults, f)
      /\ Defaults = <<>> =>
           EntryOf(r, k) = <<Prop("name", Str(k)), Prop("index", Num(PositionOf(k)))>>

C6_Witness ==
  /\ Len(results) > 0
  /\ \E k \in InputKeys :
       /\ InputSpec(k) = <<>>
       /\ PositionOf(k) = 1
       /\ HasOwn(Defaults, "name")
       /\ Get(EntryOf(1, k), "name") = Str(k)

----------------------------------------------------------------------------
(* C7 *)

ArrayIndexKeys == {k \in InputKeys : IsArrayIndex(k)}

----------------------------------------------------------------------------
(* C8 *)

\* the (table, key) pairs of all returned tables
Slots == {<<r, k>> : r \in Returned, k \in InputKeys}

\* the caller writes a top-level field of one output entry in this step
EntryWriteStep ==
  /\ pc = "idle"
  /\ pc' = "idle"
  /\ heap' # heap
  /\ heap'[caller.nested] = heap[caller.nested]

\* C8: the entries of all returned tables are pairwise different objects,
\* none of them an object the caller passed in; a write to a top-level field
\* of one entry changes no input object and no other entry.
C8_EntriesAreFresh ==
  /\ [](\A s1, s2 \in Slots :
          /\ IsRef(Get(TableOf(s1[1]), s1[2]))
          /\ EntryAddr(s1[1], s1[2]) \notin InputAddrs
          /\ (s1 # s2 => EntryAddr(s1[1], s1[2]) # EntryAddr(s2[1], s2[2])))
  /\ [][EntryWriteStep =>
          /\ \A a \in InputAddrs : heap'[a] = heap[a]
          /\ Cardinality({s \in Slots : heap'[EntryAddr(s[1], s[2])]
                                          # heap[EntryAddr(s[1], s[2])]}) = 1]_vars

C8_Witness ==
  /\ Len(results) = 2
  /\ Len(InsertedKeys) >= 2
  /\ written # {}
  /\ caller.nested \notin written
  /\ \E k \in InputKeys : InputSpec(k) = <<>> /\ Defaults = <<>>

----------------------------------------------------------------------------
(* C9 *)

\* the input value the output field f of key k is taken from, as C9 states
\* it: the spec's, or defaultFields' when the spec has no f
SourceValue(k, f) ==
  IF HasOwn(InputSpec(k), f) THEN Get(InputSpec(k), f) ELSE Get(Defaults, f)

AllFields == UNION {KeySet(InputSpec(k)) : k \in InputKeys} \cup KeySet(Defaults)

\* C9 as stated: whenever the source value of a field is a nested object, the
\* output field is that same object.
C9_NestedSameObject ==
  \A r \in Returned : \A k \in InputKeys :
    AsReturned(r, k) =>
      \A f \in AllFields :
        IsRef(SourceValue(k, f)) => Get(EntryOf(r, k), f) = SourceValue(k, f)

\* C9 amended: the same for every field of the spec and for every field of
\* defaultFields other than `name` and `index`; such a nested default is one
\* object in all entries that do not override it, and a later mutation of
\* the nested object is seen through every one of these fields.
C9_NestedSameObjectExceptNameIndex ==
  /\ \A r \in Returned : \A k \in InputKeys :
       AsReturned(r, k) =>
         \A f \in AllFields :
           (/\ IsRef(SourceValue(k, f))
            /\ (HasOwn(InputSpec(k), f) \/ f \notin {"name", "index"})) =>
             /\ Get(EntryOf(r, k), f) = SourceValue(k, f)
             /\ (SourceValue(k, f).n \in written =>
                   HasOwn(heap[Get(EntryOf(r, k), f).n], "z"))
  /\ \A f \in KeySet(Defaults) \ {"name", "index"} :
       IsRef(Get(Defaults, f)) =>
         Cardinality({Get(EntryOf(s[1], s[2]), f) :
                        s \in {t \in Returned \X InputKeys :
                                 /\ AsReturned(t[1], t[2])
                                 /\ ~HasOwn(InputSpec(t[2]), f)}}) <= 1

C9_Witness ==
  /\ Len(results) > 0
  /\ caller.nested \in written
  /\ IsRef(Get(Defaults, "f"))
  /\ \E k1, k2 \in InputKeys :
       /\ k1 # k2
       /\ InputSpec(k1) = <<>>
       /\ IsRef(Get(InputSpec(k2), "name"))
       /\ HasOwn(heap[Get(EntryOf(1, k1), "f").n], "z")
       /\ HasOwn(heap[Get(EntryOf(1, k2), "f").n], "z")
       /\ HasOwn(heap[Get(EntryOf(1, k2), "name").n], "z")

----------------------------------------------------------------------------
(* C10 *)

\* C10: during and after a reduce, after i steps the accumulator is an
\* object no earlier step used, holds exactly the first i keys of
\* Object.entries(obj) in order, holds for each of them the entry object made
\* at that key's own step, unchanged since; no earlier accumulator has been
\* modified.
C10_ReduceInvariant ==
  (pc = "reduce" \/ Len(steps) > 0) =>
    /\ Len(steps) = index
    /\ acc = (IF steps = <<>> THEN acc ELSE steps[Len(steps)].acc)
    /\ OwnKeys(heap[acc]) = [j \in 1..Len(steps) |-> entries[j][1]]
    /\ \A j \in 1..Len(steps) :
         /\ steps[j].key = entries[j][1]
         /\ steps[j].acc # steps[j].from
         /\ \A q \in 1..Len(steps) : q # j => steps[q].acc # steps[j].acc
         /\ \A q \in 1..Len(steps) : steps[q].acc # steps[j].entry
         /\ Get(heap[acc], steps[j].key) = Ref(steps[j].entry)
         /\ (steps[j].entry \notin written => heap[steps[j].entry] = steps[j].entryObj)
         /\ heap[steps[j].acc] = steps[j].accObj
         /\ heap[steps[j].from] = (IF j = 1 THEN <<>> ELSE steps[j - 1].accObj)

C10_Witness ==
  /\ pc = "reduce"
  /\ Len(steps) = 2
  /\ steps[1].entryObj # steps[2].entryObj
  /\ Len(results) = 1

====
